---- MODULE Spec2Model ----
(***************************************************************************)
(* Model of src/main.py (ConfigHardeningSuggester and main).               *)
(*                                                                         *)
(* Python strings that the program inspects character by character         *)
(* (key paths, document strings, mapping keys) are sequences of            *)
(* one-character strings, so that str.split and the substring test of      *)
(* `in` are computed and not assumed.  Opaque texts (a rule's suggestion,  *)
(* the fixed messages) are TLA+ strings.  An f-string is the tuple of its  *)
(* literal pieces and its formatted fields.                                *)
(*                                                                         *)
(* Specifications:                                                         *)
(*   Spec      analyze_config called on a suggester that has its rules and *)
(*             its logger, followed by the rendering of main;              *)
(*   FairSpec  Spec with weak fairness (the program is sequential and      *)
(*             keeps running until it returns or exits);                   *)
(*   SpecMain  a run of main from the parsed command line;                 *)
(*   SpecPair  two evaluations of the same document under rule mappings    *)
(*             that differ in one rule.                                    *)
(***************************************************************************)
EXTENDS Integers, Sequences, FiniteSets, TLC

\* ------------------------------------------------------------------ bounds
MaxRules == 2
MaxNum == 1

\* ------------------------------------------------- parsed document values
\* What yaml.safe_load / json.load return: None, bool, int, str, list, dict.
\* The tag t sorts before the payload v, so values of different types are
\* compared by tag only.
Null == [t |-> "null", v |-> 0]
Bool(b) == [t |-> "bool", v |-> b]
Num(n) == [t |-> "num", v |-> n]
Str(s) == [t |-> "str", v |-> s]
List(q) == [t |-> "seq", v |-> q]
Map(f) == [t |-> "map", v |-> f]

EmptyDict == [k \in {} |-> Null]

Dict1(k, x) == [j \in {k} |-> x]

StrTrue == Str(<<"t", "r", "u", "e">>)

Scalars ==
    {Null, Bool(TRUE), Bool(FALSE), Str(<<>>), StrTrue}
        \cup {Num(n) : n \in 0..MaxNum}

InnerValues ==
    Scalars \cup {List(<<Str(<<"t">>)>>), Map(EmptyDict)}
            \cup {Map(Dict1(<<"t">>, x)) :
                     x \in {Null, Bool(TRUE), Bool(FALSE), StrTrue}}

Documents ==
    {Null, StrTrue, List(<<Str(<<"a">>)>>), Map(EmptyDict)}
        \cup {Map(Dict1(<<"a">>, x)) : x \in InnerValues}
        \cup {Map([k \in {<<"a">>, <<"z">>} |->
                      IF k = <<"a">> THEN x ELSE Num(0)]) :
                 x \in {Null, Bool(TRUE)}}

\* ------------------------------------------------------ Python operations
\* int(x) of a bool or an int: True is 1, False is 0.
IntOf(x) == IF x.t = "bool" THEN (IF x.v THEN 1 ELSE 0) ELSE x.v

IsNumeric(x) == x.t \in {"bool", "num"}

RECURSIVE PyEq(_, _)
\* x == y
PyEq(x, y) ==
    IF IsNumeric(x) /\ IsNumeric(y) THEN IntOf(x) = IntOf(y)
    ELSE IF x.t # y.t THEN FALSE
    ELSE IF x.t = "seq"
         THEN /\ Len(x.v) = Len(y.v)
              /\ \A i \in 1..Len(x.v) : PyEq(x.v[i], y.v[i])
    ELSE IF x.t = "map"
         THEN /\ DOMAIN x.v = DOMAIN y.v
              /\ \A k \in DOMAIN x.v : PyEq(x.v[k], y.v[k])
    ELSE x.v = y.v

\* x in q, for a list q
PyInList(x, q) == \E i \in 1..Len(q) : PyEq(q[i], x)

\* needle in hay, for two str
IsSubstring(needle, hay) ==
    \E i \in 0..(Len(hay) - Len(needle)) :
        SubSeq(hay, i + 1, i + Len(needle)) = needle

\* key in current_data, where key is a str: "yes", "no" or "TypeError"
PyContains(current_data, key) ==
    CASE current_data.t = "map" ->
            IF key \in DOMAIN current_data.v THEN "yes" ELSE "no"
      [] current_data.t = "str" ->
            IF IsSubstring(key, current_data.v) THEN "yes" ELSE "no"
      [] current_data.t = "seq" ->
            IF PyInList(Str(key), current_data.v) THEN "yes" ELSE "no"
      [] OTHER -> "TypeError"

RECURSIVE Split(_, _)
\* s.split(sep) for a one-character sep
Split(s, sep) ==
    IF \A i \in 1..Len(s) : s[i] # sep THEN <<s>>
    ELSE LET p == CHOOSE i \in 1..Len(s) :
                      /\ s[i] = sep
                      /\ \A j \in 1..(i - 1) : s[j] # sep
         IN  <<SubSeq(s, 1, p - 1)>> \o Split(SubSeq(s, p + 1, Len(s)), sep)

RECURSIVE Join(_, _)
\* sep.join(parts)
Join(parts, sep) ==
    IF parts = <<>> THEN <<>>
    ELSE IF Len(parts) = 1 THEN parts[1]
    ELSE parts[1] \o sep \o Join(Tail(parts), sep)

Digit(n) == <<"0", "1", "2", "3", "4", "5", "6", "7", "8", "9">>[n + 1]

RECURSIVE PyRepr(_)
RECURSIVE ReprItems(_)
\* The items of a dict, rendered; a dict of the model has no insertion
\* order, so the keys are taken in an arbitrary fixed order.
ReprItems(f) ==
    IF DOMAIN f = {} THEN <<>>
    ELSE LET k == CHOOSE j \in DOMAIN f : TRUE
             rest == [j \in DOMAIN f \ {k} |-> f[j]]
         IN  <<<<"'">> \o k \o <<"'", ":", " ">> \o PyRepr(f[k])>>
                 \o ReprItems(rest)

\* repr(x)
PyRepr(x) ==
    CASE x.t = "null" -> <<"N", "o", "n", "e">>
      [] x.t = "bool" -> IF x.v THEN <<"T", "r", "u", "e">>
                         ELSE <<"F", "a", "l", "s", "e">>
      [] x.t = "num" -> <<Digit(x.v)>>
      [] x.t = "str" -> <<"'">> \o x.v \o <<"'">>
      [] x.t = "seq" ->
            <<"[">> \o Join([i \in 1..Len(x.v) |-> PyRepr(x.v[i])],
                            <<",", " ">>) \o <<"]">>
      [] x.t = "map" ->
            <<"{">> \o Join(ReprItems(x.v), <<",", " ">>) \o <<"}">>

\* str(x), what an f-string field shows
PyStr(x) == IF x.t = "str" THEN x.v ELSE PyRepr(x)

\* ---------------------------------------------------------------- rules
\* A rule is a JSON object of rules.json: a function from the field names it
\* has to their values.  type and suggestion are opaque texts, key_path is a
\* str, value_check is any JSON value.
Dot == "."

KeyPathA == <<"a">>

KeyPathAT == <<"a", Dot, "t">>

ValueChecks == {Bool(TRUE), List(<<Null, Bool(TRUE), StrTrue>>)}

KeyCheckRules ==
    LET base == {[type |-> "key_check", key_path |-> kp, suggestion |-> "harden"] :
                    kp \in {KeyPathA, KeyPathAT}}
    IN  base \cup {r @@ [value_check |-> vc] : r \in base, vc \in ValueChecks}

OtherRules ==
    { [type |-> "port_check", key_path |-> KeyPathA, suggestion |-> "harden"],
      [key_path |-> KeyPathA, suggestion |-> "harden"],
      [type |-> "key_check", suggestion |-> "harden"],
      [type |-> "key_check", key_path |-> KeyPathA] }

Rules == KeyCheckRules \cup OtherRules

\* The rule mappings: dicts keep insertion order and rule names are unique,
\* so a mapping is the sequence of its rule definitions.
RuleSets == UNION {[1..n -> Rules] : n \in 0..MaxRules}

\* ------------------------------------------------------- rule evaluation
RECURSIVE WalkKeysNoExcept(_, _)
\* WalkKeys without the inner try/except and without the reset on a failed
\* subscript: a value that cannot be subscripted by the key is kept.
WalkKeysNoExcept(current_data, keys) ==
    IF keys = <<>> THEN current_data
    ELSE LET key == Head(keys)
             found == PyContains(current_data, key)
         IN  IF found = "TypeError" THEN current_data
             ELSE IF found = "no" THEN Null
             ELSE IF current_data.t = "map"
                  THEN WalkKeysNoExcept(current_data.v[key], Tail(keys))
                  ELSE current_data

RECURSIVE WalkKeys(_, _)
\* The for loop over key_path.split(".") inside the inner try: the value
\* current_data holds when the loop is left (break, exhaustion or except).
WalkKeys(current_data, keys) ==
    IF keys = <<>> THEN current_data
    ELSE LET key == Head(keys)
             found == PyContains(current_data, key)
         IN  IF found = "TypeError" THEN Null
             ELSE IF found = "no" THEN Null
             ELSE IF current_data.t = "map"
                  THEN WalkKeys(current_data.v[key], Tail(keys))
                  ELSE Null

MissingKeyText(rule_details) ==
    <<"Missing key: ", rule_details.key_path, ". Suggestion: ",
      rule_details.suggestion>>

ValueText(rule_details, current_data) ==
    <<"Value for key: ", rule_details.key_path, " is: ", PyStr(current_data),
      ". Suggestion: ", rule_details.suggestion>>

Raised == [raised |-> TRUE, out |-> <<>>]

Emits(out) == [raised |-> FALSE, out |-> out]

\* The check of the resolved value against value_check.
CheckValue(rule_details, current_data) ==
    IF "value_check" \notin DOMAIN rule_details THEN Emits(<<>>)
    ELSE LET expected_value == rule_details.value_check
             ok == IF expected_value.t = "seq"
                   THEN PyInList(current_data, expected_value.v)
                   ELSE PyEq(current_data, expected_value)
         IN  IF ok THEN Emits(<<>>)
             ELSE IF "suggestion" \notin DOMAIN rule_details THEN Raised
             ELSE Emits(<<ValueText(rule_details, current_data)>>)

\* One pass of the body of the for loop over self.rules.items(): what it
\* appends to suggestions, or that it raised (KeyError) out of the loop.
EvaluateRule(config_data, rule_details) ==
    IF "type" \notin DOMAIN rule_details THEN Raised
    ELSE IF rule_details.type # "key_check" THEN Emits(<<>>)
    ELSE IF "key_path" \notin DOMAIN rule_details THEN Raised
    ELSE LET current_data == WalkKeys(config_data,
                                      Split(rule_details.key_path, Dot))
         IN  IF current_data = Null
             THEN IF "suggestion" \notin DOMAIN rule_details THEN Raised
                  ELSE Emits(<<MissingKeyText(rule_details)>>)
             ELSE CheckValue(rule_details, current_data)

\* ------------------------------------------------------------------ state
VARIABLES
    pc,              \* position of the program
    attrs,           \* attributes set on the ConfigHardeningSuggester object
    rules,           \* self.rules
    file_extension,  \* analyze_config: os.path.splitext(file_path)[1].lower()
    linter,          \* environment: is the lint executable installed
    parse,           \* how loading the config file went
    config_data,     \* analyze_config: the parsed document
    idx,             \* position of the for loop in self.rules.items()
    suggestions,     \* analyze_config: the list being built
    emitted,         \* history: what each pass of the loop appended
    result,          \* what analyze_config returned
    linterRuns,      \* history: subprocess.run calls that started a linter
    exitCode,        \* exit status of the process, -1 while it runs
    printed,         \* lines main has printed after the analysis
    configIsFile,    \* environment: os.path.isfile(args.config_file)
    rulesArg,        \* args.rules
    fileStatus,      \* environment: state of each rules file
    loadCalls,       \* history: the rules_file of each _load_rules call
    exc,             \* the exception in flight, "" when none
    rulesB,          \* SpecPair: the second rule mapping
    first            \* SpecPair: outcome of the evaluation under the first

analysisVars ==
    <<file_extension, linter, parse, config_data, idx, suggestions, emitted,
      result, linterRuns, printed>>

mainVars == <<configIsFile, rulesArg, fileStatus, loadCalls, exc>>

pairVars == <<rulesB, first>>

vars == <<pc, attrs, rules, exitCode, analysisVars, mainVars, pairVars>>

Extensions == {".yaml", ".json", ".txt"}

NoFirst == [done |-> FALSE, emitted |-> <<>>, result |-> <<>>]

\* Values of the variables a specification does not use.
MainIdle ==
    /\ configIsFile = TRUE
    /\ rulesArg = "rules.json"
    /\ fileStatus = [p \in {"rules.json", "custom.json"} |-> "ok"]
    /\ loadCalls = <<>>
    /\ exc = ""

PairIdle ==
    /\ rulesB = <<>>
    /\ first = NoFirst

AnalysisIdle ==
    /\ file_extension = ".json"
    /\ linter = "installed"
    /\ parse = ""
    /\ config_data = Null
    /\ idx = 1
    /\ suggestions = <<>>
    /\ emitted = <<>>
    /\ result = <<>>
    /\ linterRuns = 0
    /\ printed = <<>>

\* ------------------------------------------------- analyze_config (Spec)
\* analyze_config is entered on a suggester whose rules and logger
\* attributes are set, with a file of some extension.
Init ==
    /\ pc = "analyze"
    /\ attrs = {"rules", "logger"}
    /\ rules \in RuleSets
    /\ file_extension \in Extensions
    /\ linter \in {"installed", "missing"}
    /\ parse = ""
    /\ config_data = Null
    /\ idx = 1
    /\ suggestions = <<>>
    /\ emitted = <<>>
    /\ result = <<>>
    /\ linterRuns = 0
    /\ exitCode = -1
    /\ printed = <<>>
    /\ MainIdle
    /\ PairIdle

Supported == {".yaml", ".yml", ".json"}

ParseErrorText ==
    IF file_extension = ".json"
    THEN "JSON Parse Error: Please check the file for syntax errors."
    ELSE "YAML Parse Error: Please check the file for syntax errors."

\* else branch: the extension is none of .yaml, .yml, .json
UnsupportedFileType ==
    /\ pc = "analyze"
    /\ "logger" \in attrs
    /\ file_extension \notin Supported
    /\ result' = <<<<"Unsupported file type: ", file_extension>>>>
    /\ pc' = "returned"
    /\ UNCHANGED <<attrs, rules, exitCode, file_extension, linter, parse,
                   config_data, idx, suggestions, emitted, linterRuns,
                   printed, mainVars, pairVars>>

\* open and yaml.safe_load / json.load succeed with document d
ParseOk ==
    /\ pc = "analyze"
    /\ file_extension \in Supported
    /\ \E d \in Documents : config_data' = d
    /\ parse' = "ok"
    /\ pc' = "lint"
    /\ UNCHANGED <<attrs, rules, exitCode, file_extension, linter, idx,
                   suggestions, emitted, result, linterRuns, printed,
                   mainVars, pairVars>>

\* ParseSyntaxError with the handlers in the other order: the generic
\* `except Exception` takes the syntax error.
ParseSyntaxErrorGeneric ==
    /\ pc = "analyze"
    /\ "logger" \in attrs
    /\ file_extension \in Supported
    /\ parse' = "syntax_error"
    /\ result' = <<"Error loading file. Please check permissions and format.">>
    /\ pc' = "returned"
    /\ UNCHANGED <<attrs, rules, exitCode, file_extension, linter,
                   config_data, idx, suggestions, emitted, linterRuns,
                   printed, mainVars, pairVars>>

\* the parser raises yaml.YAMLError / json.JSONDecodeError
ParseSyntaxError ==
    /\ pc = "analyze"
    /\ "logger" \in attrs
    /\ file_extension \in Supported
    /\ parse' = "syntax_error"
    /\ result' = <<ParseErrorText>>
    /\ pc' = "returned"
    /\ UNCHANGED <<attrs, rules, exitCode, file_extension, linter,
                   config_data, idx, suggestions, emitted, linterRuns,
                   printed, mainVars, pairVars>>

\* open or the parser raises any other Exception (permissions, encoding)
LoadOtherError ==
    /\ pc = "analyze"
    /\ "logger" \in attrs
    /\ file_extension \in Supported
    /\ parse' = "load_error"
    /\ result' = <<"Error loading file. Please check permissions and format.">>
    /\ pc' = "returned"
    /\ UNCHANGED <<attrs, rules, exitCode, file_extension, linter,
                   config_data, idx, suggestions, emitted, linterRuns,
                   printed, mainVars, pairVars>>

\* _run_linter: subprocess.run starts the linter and its result is dropped,
\* or the executable is missing and sys.exit(1) raises SystemExit, which no
\* `except Exception` of analyze_config catches.
RunLinter ==
    /\ pc = "lint"
    /\ "logger" \in attrs
    /\ IF linter = "installed"
       THEN /\ linterRuns' = linterRuns + 1
            /\ pc' = "rules"
            /\ UNCHANGED exitCode
       ELSE /\ exitCode' = 1
            /\ pc' = "exit"
            /\ UNCHANGED linterRuns
    /\ idx' = 1
    /\ suggestions' = <<>>
    /\ UNCHANGED <<attrs, rules, file_extension, linter, parse, config_data,
                   emitted, result, printed, mainVars, pairVars>>

UnexpectedErrorText == "An unexpected error occurred during analysis."

\* RuleIter without the outer `except Exception`: the KeyError of a rule
\* leaves analyze_config.
RuleIterNoCatch ==
    /\ pc = "rules"
    /\ "logger" \in attrs
    /\ idx <= Len(rules)
    /\ LET r == EvaluateRule(config_data, rules[idx])
       IN  IF r.raised
           THEN /\ pc' = "raised"
                /\ emitted' = Append(emitted, <<>>)
                /\ UNCHANGED <<idx, suggestions, result>>
           ELSE /\ suggestions' = suggestions \o r.out
                /\ emitted' = Append(emitted, r.out)
                /\ idx' = idx + 1
                /\ UNCHANGED <<pc, result>>
    /\ UNCHANGED <<attrs, rules, exitCode, file_extension, linter, parse,
                   config_data, linterRuns, printed, mainVars, pairVars>>

\* One pass of the for loop; an exception leaves the loop for the outer
\* `except Exception`, which returns the one-element list.
RuleIter ==
    /\ pc = "rules"
    /\ "logger" \in attrs
    /\ idx <= Len(rules)
    /\ LET r == EvaluateRule(config_data, rules[idx])
       IN  IF r.raised
           THEN /\ result' = <<UnexpectedErrorText>>
                /\ pc' = "returned"
                /\ emitted' = Append(emitted, <<>>)
                /\ UNCHANGED <<idx, suggestions>>
           ELSE /\ suggestions' = suggestions \o r.out
                /\ emitted' = Append(emitted, r.out)
                /\ idx' = idx + 1
                /\ UNCHANGED <<pc, result>>
    /\ UNCHANGED <<attrs, rules, exitCode, file_extension, linter, parse,
                   config_data, linterRuns, printed, mainVars, pairVars>>

\* return suggestions
ReturnSuggestions ==
    /\ pc = "rules"
    /\ idx > Len(rules)
    /\ result' = suggestions
    /\ pc' = "returned"
    /\ UNCHANGED <<attrs, rules, exitCode, file_extension, linter, parse,
                   config_data, idx, suggestions, emitted, linterRuns,
                   printed, mainVars, pairVars>>

\* main after analyze_config returned: the header and one bullet per
\* suggestion, or the fixed line; then the process ends normally.
Render ==
    /\ pc = "returned"
    /\ printed' = IF result # <<>>
                  THEN <<"Security Hardening Suggestions:">>
                           \o [i \in 1..Len(result) |-> <<"- ", result[i]>>]
                  ELSE <<"No security hardening suggestions found.">>
    /\ exitCode' = 0
    /\ pc' = "exit"
    /\ UNCHANGED <<attrs, rules, file_extension, linter, parse, config_data,
                   idx, suggestions, emitted, result, linterRuns, mainVars,
                   pairVars>>

Next ==
    \/ UnsupportedFileType
    \/ ParseOk
    \/ ParseSyntaxError
    \/ LoadOtherError
    \/ RunLinter
    \/ RuleIter
    \/ ReturnSuggestions
    \/ Render

Spec == Init /\ [][Next]_vars

FairSpec == Spec /\ WF_vars(Next)

\* ------------------------------------------------------- main (SpecMain)
DefaultRulesFile == "rules.json"

RulesFiles == {DefaultRulesFile, "custom.json"}

\* main after parser.parse_args(): the command line and the environment.
InitMain ==
    /\ pc = "main"
    /\ attrs = {}
    /\ rules = <<>>
    /\ exitCode = -1
    /\ file_extension \in Extensions
    /\ linter \in {"installed", "missing"}
    /\ parse = ""
    /\ config_data = Null
    /\ idx = 1
    /\ suggestions = <<>>
    /\ emitted = <<>>
    /\ result = <<>>
    /\ linterRuns = 0
    /\ printed = <<>>
    /\ configIsFile \in BOOLEAN
    /\ rulesArg \in RulesFiles
    /\ fileStatus \in [RulesFiles -> {"ok", "missing", "invalid", "unreadable"}]
    /\ loadCalls = <<>>
    /\ exc = ""
    /\ PairIdle

\* Input validation: os.path.isfile(args.config_file), else sys.exit(1).
CheckConfigFile ==
    /\ pc = "main"
    /\ IF configIsFile
       THEN pc' = "construct" /\ UNCHANGED exitCode
       ELSE pc' = "exit" /\ exitCode' = 1
    /\ UNCHANGED <<attrs, rules, analysisVars, mainVars, pairVars>>

\* ConfigHardeningSuggester(): __init__ calls self._load_rules() with the
\* default rules_file before it sets self.logger.  The try body opens and
\* decodes the file and then evaluates self.logger.info, an attribute the
\* object does not have yet.
LoadRulesTry ==
    /\ pc = "construct"
    /\ "logger" \notin attrs
    /\ loadCalls' = Append(loadCalls, DefaultRulesFile)
    /\ exc' = CASE fileStatus[DefaultRulesFile] = "missing" -> "FileNotFoundError"
                [] fileStatus[DefaultRulesFile] = "invalid" -> "JSONDecodeError"
                [] fileStatus[DefaultRulesFile] = "unreadable" -> "PermissionError"
                [] OTHER -> "AttributeError"
    /\ pc' = "load_except"
    /\ UNCHANGED <<attrs, rules, exitCode, analysisVars, configIsFile,
                   rulesArg, fileStatus, pairVars>>

\* The except clause that matches the exception starts with
\* self.logger.error, which raises AttributeError inside the handler; that
\* exception leaves _load_rules and __init__.
LoadRulesExcept ==
    /\ pc = "load_except"
    /\ exc \in {"FileNotFoundError", "JSONDecodeError", "PermissionError",
                "AttributeError"}
    /\ "logger" \notin attrs
    /\ exc' = "AttributeError"
    /\ pc' = "uncaught"
    /\ UNCHANGED <<attrs, rules, exitCode, analysisVars, configIsFile,
                   rulesArg, fileStatus, loadCalls, pairVars>>

\* An exception nothing catches ends the interpreter with status 1.
Uncaught ==
    /\ pc = "uncaught"
    /\ exitCode' = 1
    /\ pc' = "exit"
    /\ UNCHANGED <<attrs, rules, analysisVars, mainVars, pairVars>>

NextMain ==
    \/ CheckConfigFile
    \/ LoadRulesTry
    \/ LoadRulesExcept
    \/ Uncaught

SpecMain == InitMain /\ [][NextMain]_vars

\* ---------------------------------------- two rule mappings (SpecPair)
\* The loop is about to start on a parsed document; rulesB is the rule
\* mapping with one rule definition replaced.
InitPair ==
    /\ pc = "rules"
    /\ attrs = {"rules", "logger"}
    /\ rules \in RuleSets
    /\ rulesB \in RuleSets
    /\ Len(rulesB) = Len(rules)
    /\ Cardinality({i \in 1..Len(rules) : rules[i] # rulesB[i]}) = 1
    /\ config_data \in Documents
    /\ file_extension = ".json"
    /\ linter = "installed"
    /\ parse = "ok"
    /\ idx = 1
    /\ suggestions = <<>>
    /\ emitted = <<>>
    /\ result = <<>>
    /\ linterRuns = 1
    /\ exitCode = -1
    /\ printed = <<>>
    /\ first = NoFirst
    /\ MainIdle

\* The same document is evaluated again, under the other rule mapping.
SecondEvaluation ==
    /\ pc = "returned"
    /\ ~first.done
    /\ first' = [done |-> TRUE, emitted |-> emitted, result |-> result]
    /\ rules' = rulesB
    /\ rulesB' = rules
    /\ idx' = 1
    /\ suggestions' = <<>>
    /\ emitted' = <<>>
    /\ result' = <<>>
    /\ pc' = "rules"
    /\ UNCHANGED <<attrs, exitCode, file_extension, linter, parse,
                   config_data, linterRuns, printed, mainVars>>

NextPair ==
    \/ RuleIter
    \/ ReturnSuggestions
    \/ SecondEvaluation

SpecPair == InitPair /\ [][NextPair]_vars

\* ------------------------------------------ the rule semantics as specified
\* Resolution of a key path as the specification words it: a segment is
\* followed when the current value is a mapping that has it as a key, and
\* anything else is absent.  Absent is a result of its own, not a value.
RECURSIVE Locate(_, _)
Locate(current, segments) ==
    IF segments = <<>> THEN [present |-> TRUE, value |-> current]
    ELSE IF current.t = "map" /\ Head(segments) \in DOMAIN current.v
         THEN Locate(current.v[Head(segments)], Tail(segments))
         ELSE [present |-> FALSE, value |-> Null]

Segments(key_path) == Split(key_path, Dot)

\* A key_check rule with the fields of the data model.
IsKeyCheck(rd) ==
    /\ {"type", "key_path", "suggestion"} \subseteq DOMAIN rd
    /\ rd.type = "key_check"

\* The passes of the loop that have run, with the rule each one evaluated.
Passes == 1..Len(emitted)

\* The rule mapping a pass of the loop iterated over.
RuleOf(i) == rules[i]

\* C1: for every document and every rule mapping, once the evaluation of the
\* rules has started it ends, and it ends by analyze_config returning a
\* sequence to its caller, never by an exception leaving it.
C1_EvaluationReturns ==
    (pc = "rules") ~>
        (pc = "returned" /\ DOMAIN result = 1..Len(result))

\* C1 witness: a rule raised inside the loop and analyze_config returned.
C1_Witness ==
    /\ pc = "returned"
    /\ parse = "ok"
    /\ \E i \in Passes : EvaluateRule(config_data, RuleOf(i)).raised
    /\ result = <<UnexpectedErrorText>>

\* C3: a key_check rule whose key_path cannot be fully walked in the
\* document (a segment is no key of the current mapping, or the current value
\* is no mapping) appends exactly one suggestion, of the "Missing key" form.
C3_AbsentPathYieldsMissingKey ==
    \A i \in Passes :
        LET rd == RuleOf(i) IN
        (IsKeyCheck(rd) /\ ~Locate(config_data, Segments(rd.key_path)).present)
            => emitted[i] = <<<<"Missing key: ", rd.key_path,
                                ". Suggestion: ", rd.suggestion>>>>

\* C3 witness: the path runs into a value that is not a mapping (a string
\* that contains the segment, a list, a number or null) and the rule has
\* appended its "Missing key" suggestion.
C3_Witness ==
    \E i \in Passes :
        LET rd == RuleOf(i) IN
        /\ IsKeyCheck(rd)
        /\ rd.key_path = KeyPathAT
        /\ config_data.t = "map"
        /\ <<"a">> \in DOMAIN config_data.v
        /\ config_data.v[<<"a">>] = StrTrue
        /\ emitted[i] = <<MissingKeyText(rd)>>
        /\ suggestions # <<>>

\* C4 (as stated): a key_check rule without value_check whose every segment
\* is a key of the successive mappings appends nothing, whatever the value.
C4_PresentKeyNoSuggestion ==
    \A i \in Passes :
        LET rd == RuleOf(i) IN
        ( /\ IsKeyCheck(rd)
          /\ "value_check" \notin DOMAIN rd
          /\ Locate(config_data, Segments(rd.key_path)).present )
            => emitted[i] = <<>>

\* C5 (as stated): with a list value_check and a present value v, nothing is
\* appended when v is an element of the list, and otherwise exactly one
\* suggestion "Value for key: {key_path} is: {v}. Suggestion: ...".
C5_ListValueCheck ==
    \A i \in Passes :
        LET rd == RuleOf(i)
            at == Locate(config_data, Segments(rd.key_path))
        IN  ( /\ IsKeyCheck(rd)
              /\ "value_check" \in DOMAIN rd
              /\ rd.value_check.t = "seq"
              /\ at.present )
                => IF \E j \in 1..Len(rd.value_check.v) :
                          rd.value_check.v[j] = at.value
                   THEN emitted[i] = <<>>
                   ELSE emitted[i] = <<<<"Value for key: ", rd.key_path,
                                         " is: ", PyStr(at.value),
                                         ". Suggestion: ", rd.suggestion>>>>

\* C6 (as stated): with a scalar value_check and a present value v, nothing
\* is appended exactly when v has the type and the value of value_check
\* (boolean, string and number pairwise distinct), and otherwise the
\* "Value for key" suggestion is appended.
C6_ScalarValueCheckTypeSensitive ==
    \A i \in Passes :
        LET rd == RuleOf(i)
            at == Locate(config_data, Segments(rd.key_path))
        IN  ( /\ IsKeyCheck(rd)
              /\ "value_check" \in DOMAIN rd
              /\ rd.value_check.t \in {"bool", "str", "num"}
              /\ at.present
              /\ at.value.t \in {"bool", "str", "num"} )
                => IF at.value = rd.value_check
                   THEN emitted[i] = <<>>
                   ELSE emitted[i] = <<<<"Value for key: ", rd.key_path,
                                         " is: ", PyStr(at.value),
                                         ". Suggestion: ", rd.suggestion>>>>

\* What the specification has a rule yield: nothing for a rule that is not a
\* key_check, "Missing key" for an absent path, "Value for key" for a failed
\* value check (membership for a list, typed equality for a scalar).
Violation(doc, rd) ==
    IF ~IsKeyCheck(rd) THEN <<>>
    ELSE LET at == Locate(doc, Segments(rd.key_path)) IN
         IF ~at.present
         THEN <<<<"Missing key: ", rd.key_path, ". Suggestion: ",
                  rd.suggestion>>>>
         ELSE IF "value_check" \notin DOMAIN rd THEN <<>>
         ELSE IF IF rd.value_check.t = "seq"
                 THEN \E j \in 1..Len(rd.value_check.v) :
                         rd.value_check.v[j] = at.value
                 ELSE rd.value_check = at.value
              THEN <<>>
              ELSE <<<<"Value for key: ", rd.key_path, " is: ",
                       PyStr(at.value), ". Suggestion: ", rd.suggestion>>>>

RECURSIVE Violations(_, _)
Violations(doc, rs) ==
    IF rs = <<>> THEN <<>>
    ELSE Violations(doc, SubSeq(rs, 1, Len(rs) - 1))
             \o Violation(doc, rs[Len(rs)])

\* The rules have the fields of the data model, or another type.
WellFormed(rs) ==
    \A i \in 1..Len(rs) :
        /\ {"type", "key_path", "suggestion"} \subseteq DOMAIN rs[i]

\* C7 (as stated): after any prefix of the rule mapping, the accumulated
\* suggestions are exactly one per violated key_check rule of the prefix, in
\* rule order, none for satisfied rules or rules of another type; the
\* returned sequence has as many elements as there are violated rules.
C7_OnePerViolatedRuleInOrder ==
    (parse = "ok" /\ WellFormed(rules)) =>
        /\ pc = "rules" =>
              suggestions = Violations(config_data, SubSeq(rules, 1, idx - 1))
        /\ pc \in {"returned", "exit"} /\ exitCode # 1 =>
              result = Violations(config_data, rules)

\* C8: a YAML or JSON syntax error makes analyze_config return exactly the
\* fixed parse-error message of the format; no rule is evaluated, the linter
\* is not invoked and the process is not aborted.
C8_ParseErrorSingleMessage ==
    parse = "syntax_error" =>
        /\ pc \in {"returned", "exit"}
        /\ file_extension = ".json" =>
              result = <<"JSON Parse Error: Please check the file for syntax errors.">>
        /\ file_extension \in {".yaml", ".yml"} =>
              result = <<"YAML Parse Error: Please check the file for syntax errors.">>
        /\ emitted = <<>>
        /\ suggestions = <<>>
        /\ linterRuns = 0
        /\ exitCode \in {-1, 0}
        /\ pc = "exit" => Len(printed) = 2

\* C8 witness: the run of a file with a syntax error has ended normally,
\* with rules that would have produced suggestions.
C8_Witness ==
    /\ parse = "syntax_error"
    /\ pc = "exit"
    /\ exitCode = 0
    /\ Len(rules) > 0
    /\ Len(result) = 1
\* C2 (as stated): a run ends with exit code 1 exactly when the config file
\* is missing, the rules file is missing or invalid, or the linter
\* executable is missing, and with exit code 0 otherwise.
C2_ExitOneExactlyOnFatal ==
    pc = "exit" =>
        /\ exitCode \in {0, 1}
        /\ exitCode = 1 <=>
              \/ ~configIsFile
              \/ fileStatus[rulesArg] # "ok"
              \/ linter = "missing"

RECURSIVE Flatten(_)
Flatten(ss) ==
    IF ss = <<>> THEN <<>> ELSE Head(ss) \o Flatten(Tail(ss))

\* The suggestions of pass i that are in a returned sequence: what the pass
\* appended when the accumulated list was returned, nothing when it was
\* dropped.
Kept(em, res, i) ==
    IF i \in DOMAIN em /\ res = Flatten(em) THEN em[i] ELSE <<>>

\* C9 (as stated): for two rule mappings that differ in the definition of one
\* rule r (which may be malformed), evaluated against the same document,
\* every other rule (taken with the fields of the data model) is evaluated in
\* both evaluations, those after r included, and has the same suggestions in
\* both returned sequences.
C9_RulesIndependent ==
    (pc = "returned" /\ first.done) =>
        \A i \in 1..Len(rules) :
            (rules[i] = rulesB[i] /\ WellFormed(<<rules[i]>>)) =>
                /\ i \in DOMAIN emitted
                /\ i \in DOMAIN first.emitted
                /\ Kept(emitted, result, i)
                       = Kept(first.emitted, first.result, i)

\* C10 (as stated): the rule mapping is loaded once, from the rules path in
\* effect for the run (args.rules), and not loaded again.
C10_LoadedOnceFromPathInEffect ==
    /\ Len(loadCalls) <= 1
    /\ \A i \in 1..Len(loadCalls) : loadCalls[i] = rulesArg
====
